---- MODULE Spec2Model ----
(***************************************************************************)
(* Model of the tradebot acquisition pipeline: the persistent quota        *)
(* governor (utils/rate_limiter.py), the cache store (data/cache.py), the  *)
(* freshness manager (data/freshness.py) and the single-symbol / batch     *)
(* fetch paths (data/fetcher.py, data/batch.py).                           *)
(*                                                                         *)
(* Time is a single integer clock `now` (one tick = one unit of            *)
(* time.time()); the calendar day of date.today() is now \div DayLen.      *)
(***************************************************************************)
EXTENDS Integers, Sequences, FiniteSets, TLC

\* ---------------------------------------------------------------- bounds
DailyLimit == 2         \* daily_limit of the governor under test (scaled)
MinInterval == 2        \* min_interval in clock ticks (scaled)
DayLen == 3             \* clock ticks per calendar day
MaxRetries == 3         \* largest max_retries retry_with_backoff is called with
NumThreads == 2         \* concurrent callers of one governor

\* ------------------------------------------------------ program constants
Saturday == 5           \* weekday() of the first weekend day
MinutesPerDay == 1440
MarketOpenMinute == 570     \* time(9, 30)
MarketCloseMinute == 960    \* time(16, 0)
IntradayMinutes == 5        \* default_freshness_minutes['intraday']
AfterHoursMinutes == 240    \* default_freshness_minutes['after_hours']
WeekendMinutes == 1440      \* default_freshness_minutes['weekend']

\* The clock starts on a Friday at midnight and runs through two calendar days.
StartNow == (Saturday - 1) * DayLen
MaxNow == StartNow + 2 * DayLen - 1
MaxCalls == DailyLimit + 1   \* cap of the per-day counters in the guards
MaxProvCalls == 2 * DailyLimit + 1  \* cap of the provider calls of a day with batches

Threads == 1..NumThreads
NoThread == 0
Symbols == {"A", "B"}
FetchSymbols == {"A"}   \* the symbol the single-symbol fetches ask for
FetchRange == <<1, 2>>  \* the (start_date, end_date) the fetches ask for

VARIABLES
    now,                \* host clock: time.time(), datetime.now(); date.today() = Today
    cur,                \* RateLimiter._current_usage {date, used, last_request_time}
    last_request_time,  \* RateLimiter._last_request_time (spacing stamp of acquire)
    db,                 \* quota_tracking table: date -> [used, last_request_time]
    stock,              \* stock_data table: <<symbol, date>> -> [val, created_at]
    meta,               \* cache_metadata table: <<symbol, start, end>> -> row
    lastOp,             \* name of the operation that completed last
    ret,                \* its outcome: a return value or the exception raised
    recCount,           \* record_request() calls on today's ledger since it was empty
    provCalls,          \* provider calls issued on the current calendar day
    lastRecAt,          \* clock of the last request recorded on this governor (-1: none)
    pc,                 \* per thread: position inside acquire()
    lock,               \* holder of RateLimiter._lock (NoThread: free)
    wake,               \* per thread: clock value at which time.sleep() returns
    tret,               \* per thread: outcome of its last acquire()
    acqOk,              \* successful acquire() calls on the current calendar day
    batch,              \* the fetch_multiple_symbols call in progress, or the last one
    lastKey,            \* (symbol, start, end) of the last direct call of the cache
    everStored,         \* keys for which a store() wrote a metadata row, ever
    utcOffset,          \* host clock minus UTC, in ticks (fixed while the process runs)
    breaker,            \* ErrorRecovery.circuit_breaker: state and failure counter
    retry,              \* the retry_with_backoff call in progress, or the last one
    fallback,           \* outcome of the last get_data_with_fallback call
    local,              \* per thread: the locals of its record_request() call
    peer,               \* _current_usage of a second governor on the same storage path
    peerCount,          \* record_request() calls made on the second governor
    frame               \* the dataset DataValidator.validate was called with last

govVars == <<cur, last_request_time, db>>
cacheVars == <<stock, meta>>
callVars == <<lastOp, ret>>
ghostVars == <<recCount, provCalls, lastRecAt>>
threadVars == <<pc, lock, wake, tret, acqOk>>
batchVars == <<batch>>
lookupVars == <<lastKey, everStored>>
envVars == <<utcOffset>>
recoveryVars == <<breaker, retry, fallback>>
raceVars == <<local, peer, peerCount>>
validVars == <<frame>>
auxVars == <<batchVars, lookupVars, envVars, recoveryVars, raceVars, validVars>>
vars == <<now, govVars, cacheVars, callVars, ghostVars, threadVars, auxVars>>

\* ------------------------------------------------------------ the clock
\* date.today() for a clock value.
DayOf(t) == t \div DayLen
Today == DayOf(now)

\* A per-day counter as seen when the clock reads t1: it restarts on a new day.
DayCount(x, t1) == IF DayOf(t1) # Today THEN 0 ELSE x

\* ------------------------------------------------------- quota governor
\* The zeroed usage row of a day.
ZeroUsage(d) == [date |-> d, used |-> 0, last_request_time |-> 0]

\* Mutant of SaveDailyUsage: the row is kept in memory only.
SaveDailyUsage_NotPersisted(c, d) == d

\* _save_daily_usage: INSERT OR REPLACE of the in-memory row.
SaveDailyUsage(c, d) ==
    (c.date :> [used |-> c.used, last_request_time |-> c.last_request_time]) @@ d

\* _load_daily_usage: today's row of the table, or a fresh row.
LoadDailyUsage(d, today) ==
    IF today \in DOMAIN d
    THEN [date |-> today, used |-> d[today].used,
          last_request_time |-> d[today].last_request_time]
    ELSE ZeroUsage(today)

\* Mutant of NeedsRollover: the stored date never compares equal to today's.
NeedsRollover_Always(c, today) == TRUE

\* The date test at the top of every quota-sensitive operation.
NeedsRollover(c, today) == c.date # today

\* Mutant of RolledUsage: the date moves on but the count is carried over.
RolledUsage_KeepsCount(c, today) == [c EXCEPT !.date = today]

\* _reset_daily_quota, applied when the date test fires: the in-memory row ...
RolledUsage(c, today) == IF NeedsRollover(c, today) THEN ZeroUsage(today) ELSE c
\* ... and the table after its save.
RolledDb(c, d, today) ==
    IF NeedsRollover(c, today) THEN SaveDailyUsage(ZeroUsage(today), d) ELSE d

\* Mutant of QuotaAvailable: the comparison is off by one.
QuotaAvailable_OffByOne(c) == ~(c.used > DailyLimit)

\* The quota test of can_make_request on the (rolled-over) row.
QuotaAvailable(c) == ~(c.used >= DailyLimit)

\* The increment of record_request on the (rolled-over) row at clock t.
Recorded(c, t) == [c EXCEPT !.used = c.used + 1, !.last_request_time = t]

\* get_usage's snapshot of a row.
UsageOf(c) == [used |-> c.used, limit |-> DailyLimit, remaining |-> DailyLimit - c.used]

BoolStr(b) == IF b THEN "True" ELSE "False"

\* can_make_request()
CanMakeRequest ==
    /\ cur' = RolledUsage(cur, Today)
    /\ db' = RolledDb(cur, db, Today)
    /\ lastOp' = "can_make_request"
    /\ ret' = BoolStr(QuotaAvailable(cur'))
    /\ UNCHANGED <<auxVars, now, last_request_time, cacheVars, ghostVars, threadVars>>

\* record_request()
RecordRequest ==
    /\ RolledUsage(cur, Today).used < MaxCalls
    /\ cur' = Recorded(RolledUsage(cur, Today), now)
    /\ db' = SaveDailyUsage(cur', RolledDb(cur, db, Today))
    /\ lastOp' = "record_request"
    /\ ret' = "None"
    /\ recCount' = recCount + 1
    /\ lastRecAt' = now
    /\ UNCHANGED <<auxVars, now, last_request_time, cacheVars, provCalls, threadVars>>

\* The clock at which acquire() leaves its spacing delay when it enters it at t.
AfterSpacing(t, last) == IF t - last < MinInterval THEN last + MinInterval ELSE t

\* acquire(), one caller: quota check, spacing delay, record.
Acquire ==
    LET c0 == RolledUsage(cur, Today)
        d0 == RolledDb(cur, db, Today)
        t1 == AfterSpacing(now, last_request_time)
        c1 == RolledUsage(c0, DayOf(t1))
        d1 == RolledDb(c0, d0, DayOf(t1))
    IN  /\ lastOp' = "acquire"
        /\ IF ~QuotaAvailable(c0)
           THEN /\ ret' = "QuotaExceededError"
                /\ cur' = c0
                /\ db' = d0
                /\ UNCHANGED <<now, last_request_time, ghostVars>>
           ELSE /\ t1 <= MaxNow
                /\ ret' = "None"
                /\ now' = t1
                /\ last_request_time' = t1
                /\ cur' = Recorded(c1, t1)
                /\ db' = SaveDailyUsage(cur', d1)
                /\ recCount' = DayCount(recCount, t1) + 1
                /\ provCalls' = DayCount(provCalls, t1)
                /\ lastRecAt' = t1
        /\ UNCHANGED <<auxVars, cacheVars, threadVars>>

\* get_usage()
GetUsage ==
    /\ cur' = RolledUsage(cur, Today)
    /\ db' = RolledDb(cur, db, Today)
    /\ lastOp' = "get_usage"
    /\ ret' = "usage"
    /\ UNCHANGED <<auxVars, now, last_request_time, cacheVars, ghostVars, threadVars>>

\* Mutant of ResetAllowed: the production gate is missing.
ResetAllowed_IgnoresProduction(force, production) == force

\* The two safety gates of reset_quota.
ResetAllowed(force, production) == force /\ ~production

\* reset_quota(force) with ENVIRONMENT flagged production or not.
ResetQuota(force, production) ==
    /\ lastOp' = "reset_quota"
    /\ IF ~ResetAllowed(force, production)
       THEN /\ ret' = IF ~force THEN "ValueError" ELSE "RuntimeError"
            /\ UNCHANGED <<cur, db, recCount>>
       ELSE /\ ret' = "None"
            /\ cur' = ZeroUsage(Today)
            /\ db' = [d \in DOMAIN db \ {Today} |-> db[d]]
            /\ recCount' = 0
    /\ UNCHANGED <<auxVars, now, last_request_time, cacheVars, provCalls, lastRecAt, threadVars>>

\* close(): saves the in-memory row.
Close ==
    /\ db' = SaveDailyUsage(cur, db)
    /\ lastOp' = "close"
    /\ ret' = "None"
    /\ UNCHANGED <<auxVars, now, cur, last_request_time, cacheVars, ghostVars, threadVars>>

\* A restart: the governor is dropped (after close() or without it) and a new one
\* is constructed on the same storage path (__init__).
Reopen(withClose) ==
    /\ db' = IF withClose THEN SaveDailyUsage(cur, db) ELSE db
    /\ cur' = LoadDailyUsage(db', Today)
    /\ last_request_time' = 0
    /\ lastOp' = "reopen"
    /\ ret' = "None"
    /\ lastRecAt' = -1
    /\ UNCHANGED <<auxVars, now, cacheVars, recCount, provCalls, threadVars>>

\* The clock advances by one tick; the per-day counters restart at midnight.
Tick ==
    /\ now < MaxNow
    /\ now' = now + 1
    /\ recCount' = DayCount(recCount, now + 1)
    /\ provCalls' = DayCount(provCalls, now + 1)
    /\ UNCHANGED <<auxVars, govVars, cacheVars, callVars, lastRecAt, threadVars>>

\* The clock passes midnight: it reads the first tick of the next day.
Midnight ==
    /\ (Today + 1) * DayLen <= MaxNow
    /\ now' = (Today + 1) * DayLen
    /\ recCount' = 0
    /\ provCalls' = 0
    /\ UNCHANGED <<auxVars, govVars, cacheVars, callVars, lastRecAt, threadVars>>

\* ------------------------------------------------------------------ Init
\* No fetch_multiple_symbols call has been made yet.
NoBatch ==
    [phase |-> "idle", symbols |-> <<>>, batch_size |-> 0, todo |-> <<>>,
     results |-> {}, remaining |-> 0, attempted |-> <<>>, failed |-> {}, calls |-> 0]

\* No cache key has been asked for yet.
NoKey == <<"", 0, 0>>

\* No dataset: None.
NoData == [rows |-> <<>>, columns_ok |-> FALSE, numeric_ok |-> FALSE]

\* The locals of a caller that is not inside record_request().
NoLocal == [used |-> 0, row |-> ZeroUsage(0)]

\* The circuit breaker of a new ErrorRecovery.
ClosedBreaker == [state |-> "CLOSED", failures |-> 0]

\* No retry_with_backoff call has been made yet.
NoRetry == [phase |-> "idle", max_retries |-> 0, outcomes |-> <<>>, result |-> "none"]

\* No get_data_with_fallback call has been made yet.
NoFallback == [result |-> "none", data |-> NoData]

\* The state after construction on a host whose clock is h ticks ahead of UTC.
InitAt(h) ==
    /\ utcOffset = h
    /\ now = StartNow
    /\ cur = ZeroUsage(DayOf(StartNow))
    /\ last_request_time = 0
    /\ db = <<>>
    /\ stock = <<>>
    /\ meta = <<>>
    /\ lastOp = "init"
    /\ ret = "None"
    /\ recCount = 0
    /\ provCalls = 0
    /\ lastRecAt = -1
    /\ pc = [t \in Threads |-> "idle"]
    /\ lock = NoThread
    /\ wake = [t \in Threads |-> 0]
    /\ tret = [t \in Threads |-> "None"]
    /\ acqOk = 0
    /\ batch = NoBatch
    /\ lastKey = NoKey
    /\ everStored = {}
    /\ breaker = ClosedBreaker
    /\ retry = NoRetry
    /\ fallback = NoFallback
    /\ local = [t \in Threads |-> NoLocal]
    /\ peer = ZeroUsage(DayOf(StartNow))
    /\ peerCount = 0
    /\ frame = NoData

\* The state after construction, on a host that runs on UTC.
Init == InitAt(0)

Next ==
    \/ CanMakeRequest
    \/ RecordRequest
    \/ Acquire
    \/ GetUsage
    \/ \E force \in BOOLEAN, production \in BOOLEAN : ResetQuota(force, production)
    \/ Close
    \/ \E withClose \in BOOLEAN : Reopen(withClose)
    \/ Tick

Spec == Init /\ [][Next]_vars

\* ------------------------------------------------------------ datasets
\* A dataset (DataFrame): its rows in index order, whether all five OHLCV
\* columns are present, and whether every value is numeric.
Frame(rows) == [rows |-> rows, columns_ok |-> TRUE, numeric_ok |-> TRUE]
IsEmpty(data) == data.rows = <<>>

\* The frame the provider returns for [s, e] when all is well: one row per day.
GoodData(s, e, v) == Frame([i \in 1..(e - s + 1) |-> [date |-> s + i - 1, val |-> v]])
\* The same rows, newest first.
ReversedData(s, e, v) == Frame([i \in 1..(e - s + 1) |-> [date |-> e - i + 1, val |-> v]])

\* Frames the provider can return that the validator rejects.
EmptyData == Frame(<<>>)
MissingColumnData(s, e, v) == [GoodData(s, e, v) EXCEPT !.columns_ok = FALSE]
NonNumericData(s, e, v) == [GoodData(s, e, v) EXCEPT !.numeric_ok = FALSE]

\* index.is_monotonic_increasing
MonotonicIncreasing(rows) ==
    \A i \in 1..(Len(rows) - 1) : rows[i].date <= rows[i + 1].date

\* DataValidator.validate: the frame passes all four checks.
Validates(data) ==
    /\ ~IsEmpty(data)
    /\ data.columns_ok
    /\ data.numeric_ok
    /\ MonotonicIncreasing(data.rows)

\* -------------------------------------------------------- cache store
\* CacheMetadata.generate_cache_key
CacheKey(sym, s, e) == <<sym, s, e>>

\* The stored dates of a symbol inside [s, e], as get() selects them.
CachedDates(st, sym, s, e) == {d \in s..e : <<sym, d>> \in DOMAIN st}

\* The rows of get()'s frame: the selected records in ascending date order.
RECURSIVE RowsAscending(_, _, _)
RowsAscending(st, sym, dates) ==
    IF dates = {} THEN <<>>
    ELSE LET d == CHOOSE x \in dates : \A y \in dates : x <= y
         IN  <<[date |-> d, val |-> st[<<sym, d>>].val]>>
                 \o RowsAscending(st, sym, dates \ {d})

\* Mutant of IsCached: records inside the range are enough.
IsCached_AnyRecords(st, m, sym, s, e) == \E d \in s..e : <<sym, d>> \in DOMAIN st

\* get() finds a metadata row for the exact key and at least one record.
IsCached(st, m, sym, s, e) ==
    /\ CacheKey(sym, s, e) \in DOMAIN m
    /\ \E d \in s..e : <<sym, d>> \in DOMAIN st

\* get(): absent without a metadata row for the exact key or without records.
CacheGet(st, m, sym, s, e) ==
    IF ~IsCached(st, m, sym, s, e)
    THEN NoData
    ELSE Frame(RowsAscending(st, sym, CachedDates(st, sym, s, e)))

\* get(): metadata.update_access_time() on the row of the key, when there is one.
TouchedMeta(m, k, t) ==
    IF k \in DOMAIN m THEN [m EXCEPT ![k].last_accessed = t] ELSE m

\* Mutant of StoredRows: a row that exists is left as it is.
RECURSIVE StoredRows_KeepsOld(_, _, _, _)
StoredRows_KeepsOld(st, sym, rows, t) ==
    IF rows = <<>> THEN st
    ELSE LET r == Head(rows)
             key == <<sym, r.date>>
             st1 == IF key \in DOMAIN st
                    THEN st
                    ELSE (key :> [val |-> r.val, created_at |-> t]) @@ st
         IN  StoredRows_KeepsOld(st1, sym, Tail(rows), t)

\* store(): the records after the upsert of every row of the frame, in order.
RECURSIVE StoredRows(_, _, _, _)
StoredRows(st, sym, rows, t) ==
    IF rows = <<>> THEN st
    ELSE LET r == Head(rows)
             key == <<sym, r.date>>
             st1 == IF key \in DOMAIN st
                    THEN [st EXCEPT ![key].val = r.val]
                    ELSE (key :> [val |-> r.val, created_at |-> t]) @@ st
         IN  StoredRows(st1, sym, Tail(rows), t)

\* Mutant of StoredMeta: an existing row is updated, no row is created.
StoredMeta_NoCreate(m, k, n, t) ==
    IF k \in DOMAIN m
    THEN [m EXCEPT ![k].record_count = n, ![k].last_accessed = t]
    ELSE m

\* store(): the metadata after the create, or the update of an existing row.
StoredMeta(m, k, n, t) ==
    IF k \in DOMAIN m
    THEN [m EXCEPT ![k].record_count = n, ![k].last_accessed = t]
    ELSE (k :> [record_count |-> n, created_at |-> t, last_accessed |-> t]) @@ m

\* --------------------------------------------------- freshness manager
Infinity == 1000000000     \* float('inf')
TickMinutes == MinutesPerDay \div DayLen
MinuteOfDay(t) == (t % DayLen) * TickMinutes
Max(a, b) == IF a >= b THEN a ELSE b

\* is_weekend, is_market_open: the clock is read in the exchange's timezone.
IsWeekend(t) == DayOf(t) % 7 >= Saturday
IsMarketOpen(t) ==
    /\ ~IsWeekend(t)
    /\ MarketOpenMinute <= MinuteOfDay(t)
    /\ MinuteOfDay(t) <= MarketCloseMinute

\* Mutant of AdaptiveThreshold: the weekend is treated as after hours.
AdaptiveThreshold_NoWeekend(t) ==
    IF IsMarketOpen(t) THEN IntradayMinutes ELSE AfterHoursMinutes

\* _get_adaptive_threshold
AdaptiveThreshold(t) ==
    IF IsWeekend(t) THEN WeekendMinutes
    ELSE IF IsMarketOpen(t) THEN IntradayMinutes
    ELSE AfterHoursMinutes

\* datetime.now(ZoneInfo('UTC')) when the host clock reads t.  created_at is
\* stamped with the naive host clock (models.py: default=datetime.now).  The
\* exchange's clock is taken to run on UTC.
UtcOf(t) == t - utcOffset

\* Mutant of GetCacheAge: the docstring's "0.0 if no cache found".
GetCacheAge_AbsentIsZero(m, k, t) ==
    IF k \notin DOMAIN m THEN 0
    ELSE Max(0, (UtcOf(t) - m[k].created_at) * TickMinutes)

\* get_cache_age, in minutes: the naive created_at is read as a UTC time and
\* subtracted from the UTC clock.
GetCacheAge(m, k, t) ==
    IF k \notin DOMAIN m THEN Infinity
    ELSE Max(0, (UtcOf(t) - m[k].created_at) * TickMinutes)

\* threshold_minutes=None
NoThreshold == -1

\* is_data_fresh(symbol, start, end, threshold_minutes)
IsDataFreshWithin(m, k, t, threshold) ==
    GetCacheAge(m, k, t) <=
        (IF threshold = NoThreshold THEN AdaptiveThreshold(UtcOf(t)) ELSE threshold)

\* is_data_fresh with the adaptive threshold.
IsDataFresh(m, k, t) == IsDataFreshWithin(m, k, t, NoThreshold)

\* DataCache.is_fresh(symbol, start, end, hours): host clock against created_at.
CacheIsFresh(m, k, t, hours) ==
    /\ k \in DOMAIN m
    /\ (t - m[k].created_at) * TickMinutes <= hours * 60

\* should_invalidate_cache: nothing to invalidate without a metadata row.
ShouldInvalidate(m, k, t) == k \in DOMAIN m /\ ~IsDataFresh(m, k, t)

\* --------------------------------------------------- single-symbol fetch
\* What the provider call does: it raises, or it returns a frame; and whether
\* the database transaction of the store that follows goes through.
ProviderOutcomes ==
    {[exc |-> x, data |-> NoData, store_ok |-> TRUE] :
        x \in {"timeout", "connectivity", "invalid_symbol", "other"}}
    \cup {[exc |-> "none", data |-> d, store_ok |-> TRUE] :
            d \in {GoodData(FetchRange[1], FetchRange[2], 1),
                   ReversedData(FetchRange[1], FetchRange[2], 1),
                   EmptyData,
                   MissingColumnData(FetchRange[1], FetchRange[2], 1),
                   NonNumericData(FetchRange[1], FetchRange[2], 1)}}
    \cup {[exc |-> "none", data |-> GoodData(FetchRange[1], FetchRange[2], 1),
           store_ok |-> FALSE]}

\* DataFetcher._is_fresh
IsFresh(cached) == TRUE

\* Mutant of FetchSteps: the quota is checked before the cache is looked up.
FetchSteps_QuotaFirst(hit, quotaOk, out) ==
    IF hit THEN {"get", "can_make_request"}
    ELSE IF ~quotaOk THEN {"get", "can_make_request"}
    ELSE IF out.exc # "none" THEN {"get", "can_make_request", "provider"}
    ELSE IF ~Validates(out.data)
         THEN {"get", "can_make_request", "provider", "record_request", "validate"}
    ELSE IF ~out.store_ok
         THEN {"get", "can_make_request", "provider", "record_request", "validate",
               "store_raises"}
    ELSE {"get", "can_make_request", "provider", "record_request", "validate", "store"}

\* Mutant of FetchSteps: the provider is called whatever the quota check says.
FetchSteps_IgnoresQuota(hit, quotaOk, out) ==
    IF hit THEN {"get"}
    ELSE IF out.exc # "none" THEN {"get", "can_make_request", "provider"}
    ELSE IF ~Validates(out.data)
         THEN {"get", "can_make_request", "provider", "record_request", "validate"}
    ELSE IF ~out.store_ok
         THEN {"get", "can_make_request", "provider", "record_request", "validate",
               "store_raises"}
    ELSE {"get", "can_make_request", "provider", "record_request", "validate", "store"}

\* Mutant of FetchSteps: record_request comes after the store, so a fetch whose
\* frame fails validation or whose store raises is not counted.
FetchSteps_RecordsLast(hit, quotaOk, out) ==
    IF hit THEN {"get"}
    ELSE IF ~quotaOk THEN {"get", "can_make_request"}
    ELSE IF out.exc # "none" THEN {"get", "can_make_request", "provider"}
    ELSE IF ~Validates(out.data)
         THEN {"get", "can_make_request", "provider", "validate"}
    ELSE IF ~out.store_ok
         THEN {"get", "can_make_request", "provider", "validate", "store_raises"}
    ELSE {"get", "can_make_request", "provider", "record_request", "validate", "store"}

\* The calls fetch_historical_data makes, by the path it takes: a cache hit
\* returns at once, an exhausted quota raises before the provider is called,
\* a provider call that raises skips record_request, a frame that fails
\* validation skips the store, and a store whose transaction fails is rolled
\* back and raises ("store_raises").
FetchSteps(hit, quotaOk, out) ==
    IF hit THEN {"get"}
    ELSE IF ~quotaOk THEN {"get", "can_make_request"}
    ELSE IF out.exc # "none" THEN {"get", "can_make_request", "provider"}
    ELSE IF ~Validates(out.data)
         THEN {"get", "can_make_request", "provider", "record_request", "validate"}
    ELSE IF ~out.store_ok
         THEN {"get", "can_make_request", "provider", "record_request", "validate",
               "store_raises"}
    ELSE {"get", "can_make_request", "provider", "record_request", "validate", "store"}

\* Mutant of FetchResult: every exception of the provider call is wrapped.
FetchResult_WrapsAll(hit, quotaOk, out) ==
    IF hit THEN "cached"
    ELSE IF ~quotaOk THEN "QuotaExceededError"
    ELSE IF out.exc # "none" THEN "DataFetchError"
    ELSE IF ~Validates(out.data) THEN "DataFetchError"
    ELSE IF ~out.store_ok THEN "DataFetchError"
    ELSE "data"

\* What fetch_historical_data returns or raises on each path.
FetchResult(hit, quotaOk, out) ==
    IF hit THEN "cached"
    ELSE IF ~quotaOk THEN "QuotaExceededError"
    ELSE IF out.exc = "invalid_symbol" THEN "InvalidSymbolError"
    ELSE IF out.exc # "none" THEN "DataFetchError"
    ELSE IF ~Validates(out.data) THEN "DataFetchError"
    ELSE IF ~out.store_ok THEN "DataFetchError"
    ELSE "data"

\* The effect of the calls `steps` of one fetch of key k = (sym, start, end)
\* that returns or raises `result`, the provider behaving as `out`; `cap`
\* bounds the provider calls of one day.
FetchEffect(op, cap, sym, k, out, steps, result) ==
    /\ "provider" \in steps => provCalls < cap
    /\ lastOp' = op
    /\ ret' = result
    /\ provCalls' = IF "provider" \in steps THEN provCalls + 1 ELSE provCalls
    /\ cur' = IF "record_request" \in steps THEN Recorded(RolledUsage(cur, Today), now)
              ELSE IF "can_make_request" \in steps THEN RolledUsage(cur, Today)
              ELSE cur
    /\ db' = IF "record_request" \in steps
             THEN SaveDailyUsage(cur', RolledDb(cur, db, Today))
             ELSE IF "can_make_request" \in steps THEN RolledDb(cur, db, Today)
             ELSE db
    /\ recCount' = IF "record_request" \in steps THEN recCount + 1 ELSE recCount
    /\ lastRecAt' = IF "record_request" \in steps THEN now ELSE lastRecAt
    /\ stock' = IF "store" \in steps
                THEN StoredRows(stock, sym, out.data.rows, now) ELSE stock
    /\ meta' = IF "store" \in steps
               THEN StoredMeta(TouchedMeta(meta, k, now), k, Len(out.data.rows), now)
               ELSE TouchedMeta(meta, k, now)
    /\ everStored' = IF "store" \in steps THEN everStored \cup {k} ELSE everStored
    /\ UNCHANGED <<now, last_request_time, threadVars, lastKey, envVars, recoveryVars, raceVars, validVars>>

\* The cache lookup of fetch_historical_data: present and _is_fresh.
FetchHit(sym, s, e) ==
    IsCached(stock, meta, sym, s, e) /\ IsFresh(CacheGet(stock, meta, sym, s, e))

\* fetch_historical_data(sym, start, end) with the provider behaving as `out`.
FetchHistoricalData(sym, out) ==
    /\ UNCHANGED batchVars
    /\ FetchEffect("fetch_historical_data", MaxCalls, sym,
                CacheKey(sym, FetchRange[1], FetchRange[2]), out,
                FetchSteps(FetchHit(sym, FetchRange[1], FetchRange[2]),
                           QuotaAvailable(RolledUsage(cur, Today)), out),
                FetchResult(FetchHit(sym, FetchRange[1], FetchRange[2]),
                            QuotaAvailable(RolledUsage(cur, Today)), out))

\* The cache lookup of _fetch_single_symbol: present.
BatchHit(sym, s, e) == IsCached(stock, meta, sym, s, e)

\* BatchProcessor._fetch_single_symbol(sym, start, end): the same calls in the
\* same order, without the _is_fresh test.
FetchSingleSymbol(sym, out) ==
    /\ UNCHANGED batchVars
    /\ FetchEffect("_fetch_single_symbol", MaxCalls, sym,
                CacheKey(sym, FetchRange[1], FetchRange[2]), out,
                FetchSteps(BatchHit(sym, FetchRange[1], FetchRange[2]),
                           QuotaAvailable(RolledUsage(cur, Today)), out),
                FetchResult(BatchHit(sym, FetchRange[1], FetchRange[2]),
                            QuotaAvailable(RolledUsage(cur, Today)), out))

NextFetch ==
    \/ \E sym \in FetchSymbols, out \in ProviderOutcomes : FetchHistoricalData(sym, out)
    \/ \E sym \in FetchSymbols, out \in ProviderOutcomes : FetchSingleSymbol(sym, out)
    \/ \E withClose \in BOOLEAN : Reopen(withClose)
    \/ Tick

\* Single-symbol fetches through one governor and one cache, with restarts.
SpecFetch == Init /\ [][NextFetch]_vars

\* ------------------------------------------------ cache store operations
\* The symbol, the ranges and the retention periods the cache is called with.
CacheSymbols == {"A"}
CacheRanges == {<<1, 2>>, <<2, 2>>}
ClearSymbols == {"", "A", "B"}      \* "": symbol=None
ClearDays == {0, 1}                 \* 0: older_than_days=None (or 0)

\* Rows of value v on the given dates, oldest first.
RECURSIVE DatedRows(_, _)
DatedRows(dates, v) ==
    IF dates = {} THEN <<>>
    ELSE LET d == CHOOSE x \in dates : \A y \in dates : x <= y
         IN  <<[date |-> d, val |-> v]>> \o DatedRows(dates \ {d}, v)

\* The frames store() is called with for [s, e]: rows on some dates of the
\* range, oldest first, and frames store() rejects.
CacheFrames(s, e) ==
    {Frame(DatedRows(D, v)) : D \in (SUBSET (s..e)) \ {{}}, v \in {1, 2}}
    \cup {EmptyData, MissingColumnData(s, e, 1), NonNumericData(s, e, 1)}

\* Mutant of StoreWrites: the required columns are not checked.
StoreWrites_IgnoresColumns(data) == ~IsEmpty(data) /\ data.numeric_ok

\* store() writes: the frame is not empty, has the five columns, and float()
\* and int() accept every value (a failing conversion rolls the transaction
\* back, is logged, and is raised again by store()).
StoreWrites(data) == ~IsEmpty(data) /\ data.columns_ok /\ data.numeric_ok

\* Mutant of CommittedRows: the rows upserted before the failing one stay.
CommittedRows_NoRollback(st, sym, data, t) ==
    IF IsEmpty(data) \/ ~data.columns_ok THEN st
    ELSE IF data.numeric_ok THEN StoredRows(st, sym, data.rows, t)
    ELSE StoredRows(st, sym, SubSeq(data.rows, 1, Len(data.rows) - 1), t)

\* The records after store(): the upserts run inside database.atomic(), so a
\* float() or int() that fails on a row rolls back the rows upserted before it.
CommittedRows(st, sym, data, t) ==
    IF IsEmpty(data) \/ ~data.columns_ok THEN st
    ELSE IF data.numeric_ok THEN StoredRows(st, sym, data.rows, t)
    ELSE st

\* store(sym, s, e, data)
Store(sym, s, e, data) ==
    /\ lastOp' = "store"
    /\ ret' = IF IsEmpty(data) \/ StoreWrites(data) THEN "None" ELSE "ValueError"
    /\ stock' = CommittedRows(stock, sym, data, now)
    /\ meta' = IF StoreWrites(data)
               THEN StoredMeta(meta, CacheKey(sym, s, e), Len(data.rows), now)
               ELSE meta
    /\ lastKey' = <<sym, s, e>>
    /\ everStored' = IF StoreWrites(data) THEN everStored \cup {<<sym, s, e>>} ELSE everStored
    /\ UNCHANGED <<now, govVars, ghostVars, threadVars, batchVars, envVars, recoveryVars, raceVars, validVars>>

\* get(sym, s, e)
Get(sym, s, e) ==
    /\ lastOp' = "get"
    /\ ret' = IF IsCached(stock, meta, sym, s, e) THEN "data" ELSE "None"
    /\ lastKey' = <<sym, s, e>>
    /\ meta' = TouchedMeta(meta, CacheKey(sym, s, e), now)
    /\ UNCHANGED <<now, govVars, stock, ghostVars, threadVars, batchVars, everStored, envVars, recoveryVars, raceVars, validVars>>

\* Mutant of ClearMatches: the age filter is dropped.
ClearMatches_IgnoresAge(rsym, created, symbol, days, t) ==
    symbol # "" => rsym = symbol

\* The filter of clear_cache on a row of symbol rsym created at `created`:
\* `if symbol:` and `if older_than_days:` each add a condition.
ClearMatches(rsym, created, symbol, days, t) ==
    /\ symbol # "" => rsym = symbol
    /\ days # 0 => created < t - days * DayLen

\* The keys of a table that clear_cache deletes.
ClearedKeys(table, symbol, days, t) ==
    {k \in DOMAIN table : ClearMatches(k[1], table[k].created_at, symbol, days, t)}

\* A table without some of its keys.
Without(table, keys) == [k \in (DOMAIN table) \ keys |-> table[k]]

\* The deletions of clear_cache(symbol, older_than_days), called through `op`
\* which returns `result`.
ClearEffect(op, key, symbol, days, result) ==
    /\ lastOp' = op
    /\ lastKey' = key
    /\ ret' = result
    /\ stock' = Without(stock, ClearedKeys(stock, symbol, days, now))
    /\ meta' = Without(meta, ClearedKeys(meta, symbol, days, now))
    /\ UNCHANGED <<now, govVars, ghostVars, threadVars, batchVars, everStored, envVars, recoveryVars, raceVars, validVars>>

\* Whether clear_cache(symbol, older_than_days) deletes anything.
DeletesAny(symbol, days) ==
    ClearedKeys(stock, symbol, days, now) \cup ClearedKeys(meta, symbol, days, now) # {}

\* total_deleted: the rows the two delete queries of clear_cache remove.
DeletedCount(symbol, days) ==
    Cardinality(ClearedKeys(stock, symbol, days, now))
        + Cardinality(ClearedKeys(meta, symbol, days, now))

\* clear_cache(symbol, older_than_days)
ClearCache(symbol, days) ==
    ClearEffect("clear_cache", NoKey, symbol, days, ToString(DeletedCount(symbol, days)))

\* FreshnessManager.cleanup_old_cache(days_to_keep)
CleanupOldCache(days) ==
    ClearEffect("cleanup_old_cache", NoKey, "", days, ToString(DeletedCount("", days)))

\* FreshnessManager.invalidate_cache_entry(sym, s, e)
InvalidateCacheEntry(sym, s, e) ==
    ClearEffect("invalidate_cache_entry", <<sym, s, e>>, sym, 0, BoolStr(DeletesAny(sym, 0)))

NextCache ==
    \/ \E sym \in CacheSymbols, r \in CacheRanges :
          \E data \in CacheFrames(r[1], r[2]) : Store(sym, r[1], r[2], data)
    \/ \E sym \in CacheSymbols, r \in CacheRanges : Get(sym, r[1], r[2])
    \/ \E symbol \in ClearSymbols, days \in ClearDays : ClearCache(symbol, days)
    \/ \E days \in ClearDays : CleanupOldCache(days)
    \/ \E sym \in CacheSymbols, r \in CacheRanges : InvalidateCacheEntry(sym, r[1], r[2])
    \/ Midnight

\* The cache store and the freshness manager's removals, called directly.
SpecCache == Init /\ [][NextCache]_vars

\* ------------------------------------------- freshness manager operations
\* The ranges, thresholds, hours and host clock offsets the manager is used with.
FreshKeys == {<<"A", 1, 2>>, <<"B", 2, 2>>}
FreshThresholds == {NoThreshold, 1, 600}
FreshHours == {1, 24}
HostOffsets == {-1, 0, 1}

\* The clock of the freshness checks runs from Friday 00:00 to the second tick
\* of Saturday: every market state, and a range more than one day old.
FreshMaxNow == StartNow + DayLen + 1
FreshTick == now < FreshMaxNow /\ Tick

\* The frames store() is called with here.
FreshFrames(s, e) == {GoodData(s, e, 1), EmptyData}

\* A query of the freshness of (sym, s, e): it reads, and changes nothing.
FreshQuery(op, sym, s, e, result) ==
    /\ lastOp' = op
    /\ lastKey' = <<sym, s, e>>
    /\ ret' = result
    /\ UNCHANGED <<now, govVars, cacheVars, ghostVars, threadVars, batchVars,
                   everStored, envVars, recoveryVars, raceVars, validVars>>

\* The float get_cache_age returns, as it prints.
AgeStr(a) == IF a = Infinity THEN "inf" ELSE ToString(a)

\* get_cache_age(sym, s, e)
GetCacheAgeCall(sym, s, e) ==
    FreshQuery("get_cache_age", sym, s, e,
               AgeStr(GetCacheAge(meta, CacheKey(sym, s, e), now)))

\* is_data_fresh(sym, s, e, threshold_minutes)
IsDataFreshCall(sym, s, e, threshold) ==
    FreshQuery("is_data_fresh", sym, s, e,
               BoolStr(IsDataFreshWithin(meta, CacheKey(sym, s, e), now, threshold)))

\* DataCache.is_fresh(sym, s, e, hours)
IsFreshCall(sym, s, e, hours) ==
    FreshQuery("is_fresh", sym, s, e,
               BoolStr(CacheIsFresh(meta, CacheKey(sym, s, e), now, hours)))

\* _get_adaptive_threshold()
GetAdaptiveThresholdCall ==
    /\ lastOp' = "_get_adaptive_threshold"
    /\ lastKey' = NoKey
    /\ ret' = ToString(AdaptiveThreshold(UtcOf(now)))
    /\ UNCHANGED <<now, govVars, cacheVars, ghostVars, threadVars, batchVars,
                   everStored, envVars, recoveryVars, raceVars, validVars>>

\* should_invalidate_cache(sym, s, e)
ShouldInvalidateCacheCall(sym, s, e) ==
    FreshQuery("should_invalidate_cache", sym, s, e,
               BoolStr(ShouldInvalidate(meta, CacheKey(sym, s, e), now)))

\* The state after construction on a host in some timezone.
InitFresh == \E h \in HostOffsets : InitAt(h)

NextFresh ==
    \/ \E k \in FreshKeys :
          \E data \in FreshFrames(k[2], k[3]) : Store(k[1], k[2], k[3], data)
    \/ \E k \in FreshKeys : GetCacheAgeCall(k[1], k[2], k[3])
    \/ \E k \in FreshKeys, threshold \in FreshThresholds :
          IsDataFreshCall(k[1], k[2], k[3], threshold)
    \/ \E k \in FreshKeys, hours \in FreshHours : IsFreshCall(k[1], k[2], k[3], hours)
    \/ \E k \in FreshKeys : ShouldInvalidateCacheCall(k[1], k[2], k[3])
    \/ GetAdaptiveThresholdCall
    \/ \E symbol \in ClearSymbols, days \in ClearDays : ClearCache(symbol, days)
    \/ \E days \in ClearDays : CleanupOldCache(days)
    \/ FreshTick

\* The cache store and the freshness manager over two days of a running clock.
SpecFresh == InitFresh /\ [][NextFresh]_vars

\* ---------------------------------------------------------- error recovery
\* ErrorRecovery (tradebot/data/recovery.py), as its specification describes
\* it: the circuit breaker, retry_with_backoff and get_data_with_fallback.
TripThreshold == 5                  \* failures that open the circuit breaker
MaxFailures == TripThreshold + 1    \* record_failure() calls explored
RetryOutcomes == {"ok", "listed", "other"}   \* success, allow-listed, other exception

\* Mutant of Tripped: the breaker opens one failure late.
Tripped_OneLate(failures) == failures > TripThreshold

\* The failure counter has reached the trip threshold.
Tripped(failures) == failures >= TripThreshold

\* What the other recovery operations leave alone.
RecoveryFrame ==
    <<now, govVars, cacheVars, ghostVars, threadVars, batchVars, lookupVars, envVars, raceVars, validVars>>

\* circuit_breaker.record_failure()
RecordFailure ==
    /\ breaker.failures < MaxFailures
    /\ breaker' = [failures |-> breaker.failures + 1,
                   state |-> IF Tripped(breaker.failures + 1) THEN "OPEN"
                             ELSE breaker.state]
    /\ lastOp' = "record_failure"
    /\ ret' = "None"
    /\ UNCHANGED <<RecoveryFrame, retry, fallback>>

\* circuit_breaker.should_allow_call()
ShouldAllowCall ==
    /\ lastOp' = "should_allow_call"
    /\ ret' = BoolStr(breaker.state # "OPEN")
    /\ UNCHANGED <<RecoveryFrame, recoveryVars>>

\* retry_with_backoff(operation, max_retries, exceptions) is entered.
RetryWithBackoffCall(max_retries) ==
    /\ retry.phase # "running"
    /\ retry' = [phase |-> "running", max_retries |-> max_retries,
                 outcomes |-> <<>>, result |-> "none"]
    /\ lastOp' = "retry_with_backoff:call"
    /\ ret' = "None"
    /\ UNCHANGED <<RecoveryFrame, breaker, fallback>>

\* Mutant of RetryStops: one more attempt than max_retries.
RetryStops_OneMore(outcome, calls, max_retries) ==
    outcome # "listed" \/ calls > max_retries

\* Whether retry_with_backoff ends after an invocation with this outcome: on a
\* success, on an exception outside the allow-list, or when the attempts are
\* used up.
RetryStops(outcome, calls, max_retries) ==
    outcome # "listed" \/ calls >= max_retries

\* What retry_with_backoff returns or raises after its last invocation.
RetryResult(outcome) ==
    IF outcome = "ok" THEN "result"
    ELSE IF outcome = "listed" THEN "ListedError" ELSE "OtherError"

\* One invocation of `operation` inside retry_with_backoff, and the return,
\* the raise or the backoff sleep that follows it.
RetryInvoke(outcome) ==
    /\ retry.phase = "running"
    /\ LET outs == Append(retry.outcomes, outcome)
           done == RetryStops(outcome, Len(outs), retry.max_retries)
       IN  /\ retry' = [retry EXCEPT !.outcomes = outs,
                                     !.phase = IF done THEN "done" ELSE "running",
                                     !.result = IF done THEN outcome ELSE "none"]
           /\ lastOp' = IF done THEN "retry_with_backoff" ELSE "retry_with_backoff:sleep"
           /\ ret' = IF done THEN RetryResult(outcome) ELSE "None"
    /\ UNCHANGED <<RecoveryFrame, breaker, fallback>>

\* What api_function does for [s, e]: it raises, or it returns a frame.
ApiOutcomes(s, e) ==
    {[exc |-> "error", data |-> NoData], [exc |-> "none", data |-> GoodData(s, e, 2)]}

\* Mutant of FallbackData: the cache is not consulted.
FallbackData_NoCache(st, m, sym, s, e, out) == out.data

\* The dataset get_data_with_fallback ends with: api_function's result, or
\* after its failure whatever the cache holds for the exact range.
FallbackData(st, m, sym, s, e, out) ==
    IF out.exc = "none" THEN out.data ELSE CacheGet(st, m, sym, s, e)

\* get_data_with_fallback(sym, s, e, api_function)
GetDataWithFallback(sym, s, e, out) ==
    LET data == FallbackData(stock, meta, sym, s, e, out)
        raised == out.exc # "none" /\ data = NoData
    IN  /\ fallback' = [result |-> IF raised THEN "raised" ELSE "returned",
                        data |-> data]
        /\ lastOp' = "get_data_with_fallback"
        /\ ret' = IF raised THEN "Error"
                  ELSE IF out.exc = "none" THEN "api_data" ELSE "cached_data"
        /\ lastKey' = <<sym, s, e>>
        /\ meta' = IF out.exc = "none" THEN meta
                   ELSE TouchedMeta(meta, CacheKey(sym, s, e), now)
        /\ UNCHANGED <<now, govVars, stock, ghostVars, threadVars, batchVars,
                       everStored, envVars, breaker, retry, raceVars, validVars>>

NextRecovery ==
    \/ RecordFailure
    \/ ShouldAllowCall
    \/ \E max_retries \in 1..MaxRetries : RetryWithBackoffCall(max_retries)
    \/ \E outcome \in RetryOutcomes : RetryInvoke(outcome)
    \/ \E sym \in CacheSymbols, r \in CacheRanges :
          Store(sym, r[1], r[2], GoodData(r[1], r[2], 1))
    \/ \E sym \in CacheSymbols, r \in CacheRanges :
          \E out \in ApiOutcomes(r[1], r[2]) : GetDataWithFallback(sym, r[1], r[2], out)
    \/ Midnight

\* The error-recovery layer over a cache that is stored into and ages.
SpecRecovery == Init /\ [][NextRecovery]_vars

\* ------------------------------------------------------- data validator
\* The frames DataValidator.validate is called with: up to MaxRows rows dated
\* in any order, with or without the required columns and numeric values.
MaxRows == 3
ValidatorDates == 1..2
ValidatorRows(ds) == [i \in 1..Len(ds) |-> [date |-> ds[i], val |-> 1]]
ValidatorFrames ==
    {[rows |-> ValidatorRows(ds), columns_ok |-> c, numeric_ok |-> m] :
        ds \in UNION {[1..k -> ValidatorDates] : k \in 0..MaxRows},
        c \in BOOLEAN, m \in BOOLEAN}

\* DataValidator.validate(data): it returns the frame or raises.
Validate(data) ==
    /\ frame' = data
    /\ lastOp' = "validate"
    /\ lastKey' = NoKey
    /\ ret' = IF Validates(data) THEN "data" ELSE "ValidationError"
    /\ UNCHANGED <<now, govVars, cacheVars, ghostVars, threadVars, batchVars,
                   everStored, envVars, recoveryVars, raceVars>>

\* The store that follows a validation that returned (fetcher.py: validated
\* data goes to cache.store); after a ValidationError there is none.
StoreValidated(sym, s, e) ==
    /\ lastOp = "validate"
    /\ ret = "data"
    /\ Store(sym, s, e, frame)

NextValidate ==
    \/ \E data \in ValidatorFrames : Validate(data)
    \/ \E sym \in CacheSymbols, r \in CacheRanges : StoreValidated(sym, r[1], r[2])

\* The validator, and the store of what it accepts.
SpecValidate == Init /\ [][NextValidate]_vars

\* ------------------------------------------------------ batch processor
Min(a, b) == IF a <= b THEN a ELSE b

\* Python's seq[:n]: the first n items, or all but the last -n when n < 0.
SliceTo(seq, n) ==
    IF n >= 0 THEN SubSeq(seq, 1, Min(n, Len(seq)))
    ELSE SubSeq(seq, 1, Max(0, Len(seq) + n))

\* The set of the items of a list.
Items(seq) == {seq[i] : i \in DOMAIN seq}

\* calculate_optimal_batch_size for `needed` symbols, usage['remaining'] being
\* `remaining`.
CalculateOptimalBatchSize(needed, remaining) ==
    IF remaining > 0 /\ Min(needed, remaining) = 0 THEN 1 ELSE Min(needed, remaining)

\* Mutant of RestAfterFailure: the loop stops at the first symbol that raises.
RestAfterFailure_Aborts(todo) == <<>>

\* The `except ...: continue` of the loop: the symbols still to process after
\* one whose fetch raised.
RestAfterFailure(todo) == Tail(todo)

\* The symbol lists passed to fetch_multiple_symbols.
BatchLists == {<<>>, <<"A">>, <<"A", "B">>, <<"B", "A">>, <<"A", "B", "C">>}

\* fetch_multiple_symbols(symbols, start, end) up to the loop: the batch size
\* is computed from get_usage(), a size of 0 raises QuotaExceededError.
FetchMultipleSymbolsCall(symbols) ==
    /\ batch.phase # "run"
    /\ cur' = RolledUsage(cur, Today)
    /\ db' = RolledDb(cur, db, Today)
    /\ batch' = [phase |-> IF CalculateOptimalBatchSize(Len(symbols), UsageOf(cur').remaining) = 0
                           THEN "raised" ELSE "run",
                 symbols |-> symbols,
                 batch_size |-> CalculateOptimalBatchSize(Len(symbols), UsageOf(cur').remaining),
                 todo |-> IF CalculateOptimalBatchSize(Len(symbols), UsageOf(cur').remaining) = 0
                          THEN <<>>
                          ELSE SliceTo(symbols,
                                       CalculateOptimalBatchSize(Len(symbols),
                                                                 UsageOf(cur').remaining)),
                 results |-> {},
                 remaining |-> UsageOf(cur').remaining,
                 attempted |-> <<>>,
                 failed |-> {},
                 calls |-> 0]
    /\ lastOp' = IF batch'.phase = "raised" THEN "fetch_multiple_symbols" ELSE lastOp
    /\ ret' = IF batch'.phase = "raised" THEN "QuotaExceededError" ELSE ret
    /\ UNCHANGED <<now, last_request_time, cacheVars, ghostVars, threadVars, lookupVars, envVars, recoveryVars, raceVars, validVars>>

\* One iteration of the loop: _fetch_single_symbol on the next symbol; its data
\* goes into the result map, an exception is logged and the loop goes on.
BatchIteration(sym, out, steps, result) ==
    /\ FetchEffect("_fetch_single_symbol", MaxProvCalls, sym,
                   CacheKey(sym, FetchRange[1], FetchRange[2]), out, steps, result)
    /\ batch' = [batch EXCEPT
                   !.todo = IF result \in {"cached", "data"}
                            THEN Tail(@) ELSE RestAfterFailure(@),
                   !.results = IF result \in {"cached", "data"} THEN @ \cup {sym} ELSE @,
                   !.attempted = Append(@, sym),
                   !.failed = IF result \in {"cached", "data"} THEN @ ELSE @ \cup {sym},
                   !.calls = IF "provider" \in steps THEN @ + 1 ELSE @]

BatchFetchNext(out) ==
    /\ batch.phase = "run"
    /\ batch.todo # <<>>
    /\ BatchIteration(Head(batch.todo), out,
                      FetchSteps(BatchHit(Head(batch.todo), FetchRange[1], FetchRange[2]),
                                 QuotaAvailable(RolledUsage(cur, Today)), out),
                      FetchResult(BatchHit(Head(batch.todo), FetchRange[1], FetchRange[2]),
                                  QuotaAvailable(RolledUsage(cur, Today)), out))

\* The loop is over: fetch_multiple_symbols returns the result map.
FetchMultipleSymbolsReturn ==
    /\ batch.phase = "run"
    /\ batch.todo = <<>>
    /\ batch' = [batch EXCEPT !.phase = "returned"]
    /\ lastOp' = "fetch_multiple_symbols"
    /\ ret' = "results"
    /\ UNCHANGED <<now, govVars, cacheVars, ghostVars, threadVars, lookupVars, envVars, recoveryVars, raceVars, validVars>>

NextBatch ==
    \/ \E symbols \in BatchLists : FetchMultipleSymbolsCall(symbols)
    \/ \E out \in ProviderOutcomes : BatchFetchNext(out)
    \/ FetchMultipleSymbolsReturn
    \/ RecordRequest
    \/ Midnight

\* Batches through one governor and one cache; record_request() is also called
\* directly on the governor, before and while a batch runs, and a day ends.
SpecBatch == Init /\ [][NextBatch]_vars

\* ------------------------------------------- acquire() under concurrency
\* Each caller runs acquire() statement by statement:
\*   "idle" -> "lock" (waiting at `with self._lock`) -> "check" -> "space"
\*   -> "sleep" -> "record" -> "done" -> "idle", or "check" -> "raise" -> "idle".
InWithBlock == {"check", "space", "sleep", "record", "raise", "done"}

\* Mutant of LockFree: the `with self._lock` is missing.
LockFree_NoLock == TRUE

\* `with self._lock` admits a caller only while no caller holds the lock.
LockFree == lock = NoThread

\* Mutant of ReleasedOn: the lock is released on the normal return only.
ReleasedOn_ReturnOnly(path) == path = "done"

\* The `with` statement releases the lock on every exit path.
ReleasedOn(path) == TRUE

\* A caller calls acquire() and reaches the `with` statement.
AcqCall(t) ==
    /\ pc[t] = "idle"
    /\ pc' = [pc EXCEPT ![t] = "lock"]
    /\ UNCHANGED <<auxVars, now, govVars, cacheVars, callVars, ghostVars, lock, wake, tret, acqOk>>

\* It enters the `with` block.
AcqEnter(t) ==
    /\ pc[t] = "lock"
    /\ LockFree
    /\ lock' = t
    /\ pc' = [pc EXCEPT ![t] = "check"]
    /\ UNCHANGED <<auxVars, now, govVars, cacheVars, callVars, ghostVars, wake, tret, acqOk>>

\* if not self.can_make_request(): raise QuotaExceededError
AcqCheck(t) ==
    /\ pc[t] = "check"
    /\ cur' = RolledUsage(cur, Today)
    /\ db' = RolledDb(cur, db, Today)
    /\ pc' = [pc EXCEPT ![t] = IF QuotaAvailable(cur') THEN "space" ELSE "raise"]
    /\ UNCHANGED <<auxVars, now, last_request_time, cacheVars, callVars, ghostVars, lock, wake,
                   tret, acqOk>>

\* The spacing test: the caller sleeps until min_interval has passed since
\* _last_request_time (not at all when it already has).
AcqSpace(t) ==
    /\ pc[t] = "space"
    /\ AfterSpacing(now, last_request_time) <= MaxNow
    /\ wake' = [wake EXCEPT ![t] = AfterSpacing(now, last_request_time)]
    /\ pc' = [pc EXCEPT ![t] = "sleep"]
    /\ UNCHANGED <<auxVars, now, govVars, cacheVars, callVars, ghostVars, lock, tret, acqOk>>

\* time.sleep() has returned: self._last_request_time = time.time()
AcqStamp(t) ==
    /\ pc[t] = "sleep"
    /\ now >= wake[t]
    /\ last_request_time' = now
    /\ pc' = [pc EXCEPT ![t] = "record"]
    /\ UNCHANGED <<auxVars, now, cur, db, cacheVars, callVars, ghostVars, lock, wake, tret, acqOk>>

\* self.record_request()
AcqRecord(t) ==
    /\ pc[t] = "record"
    /\ cur' = Recorded(RolledUsage(cur, Today), now)
    /\ db' = SaveDailyUsage(cur', RolledDb(cur, db, Today))
    /\ recCount' = recCount + 1
    /\ lastRecAt' = now
    /\ acqOk' = acqOk + 1
    /\ pc' = [pc EXCEPT ![t] = "done"]
    /\ UNCHANGED <<auxVars, now, last_request_time, cacheVars, callVars, provCalls, lock, wake, tret>>

\* The caller leaves the `with` block, by the raise or by the normal return.
AcqExit(t) ==
    /\ pc[t] \in {"raise", "done"}
    /\ lock' = IF ReleasedOn(pc[t]) THEN NoThread ELSE lock
    /\ tret' = [tret EXCEPT ![t] = IF pc[t] = "raise" THEN "QuotaExceededError" ELSE "None"]
    /\ pc' = [pc EXCEPT ![t] = "idle"]
    /\ UNCHANGED <<auxVars, now, govVars, cacheVars, callVars, ghostVars, wake, acqOk>>

\* get_usage() by a caller: it runs under the same lock and never blocks inside.
GetUsageT(t) ==
    /\ pc[t] = "idle"
    /\ LockFree
    /\ cur' = RolledUsage(cur, Today)
    /\ db' = RolledDb(cur, db, Today)
    /\ tret' = [tret EXCEPT ![t] = "usage"]
    /\ UNCHANGED <<auxVars, now, last_request_time, cacheVars, callVars, ghostVars, pc, lock, wake,
                   acqOk>>

\* The clock advances while callers are inside acquire().
TickT ==
    /\ now < MaxNow
    /\ now' = now + 1
    /\ recCount' = DayCount(recCount, now + 1)
    /\ provCalls' = DayCount(provCalls, now + 1)
    /\ acqOk' = DayCount(acqOk, now + 1)
    /\ UNCHANGED <<auxVars, govVars, cacheVars, callVars, lastRecAt, pc, lock, wake, tret>>

NextAcq ==
    \/ \E t \in Threads : AcqCall(t)
    \/ \E t \in Threads : AcqEnter(t)
    \/ \E t \in Threads : AcqCheck(t)
    \/ \E t \in Threads : AcqSpace(t)
    \/ \E t \in Threads : AcqStamp(t)
    \/ \E t \in Threads : AcqRecord(t)
    \/ \E t \in Threads : AcqExit(t)
    \/ \E t \in Threads : GetUsageT(t)
    \/ TickT

\* Several callers of acquire() and get_usage() on one governor.
SpecAcq == Init /\ [][NextAcq]_vars

\* ------------------------------------ record_request() under concurrency
\* Each caller runs record_request() statement by statement, directly (as the
\* fetchers call it, without the lock) or from inside acquire()'s `with` block:
\*   "idle" -> "rr_read" -> "rr_write" -> "rr_params" -> "rr_save" -> "idle".
\* `used += 1` is a read followed by a write, and _save_daily_usage builds the
\* parameters of its INSERT OR REPLACE before it executes it.

\* What the race leaves alone.
RecordFrame ==
    <<now, last_request_time, cacheVars, callVars, provCalls, lastRecAt, wake, acqOk,
      batchVars, lookupVars, envVars, recoveryVars, peer, peerCount, validVars>>

\* A caller enters record_request(), through acquire() (which admits it while
\* the lock is free and quota is left) or directly.
RecCall(t, viaAcquire) ==
    /\ pc[t] = "idle"
    /\ recCount < MaxCalls
    /\ viaAcquire => (LockFree /\ QuotaAvailable(cur))
    /\ lock' = IF viaAcquire THEN t ELSE lock
    /\ pc' = [pc EXCEPT ![t] = "rr_read"]
    /\ recCount' = recCount + 1
    /\ UNCHANGED <<RecordFrame, govVars, tret, local>>

\* self._current_usage['used'] += 1: the read ...
RecRead(t) ==
    /\ pc[t] = "rr_read"
    /\ local' = [local EXCEPT ![t].used = cur.used]
    /\ pc' = [pc EXCEPT ![t] = "rr_write"]
    /\ UNCHANGED <<RecordFrame, govVars, recCount, lock, tret>>

\* ... and the write, then the stamp of last_request_time.
RecWrite(t) ==
    /\ pc[t] = "rr_write"
    /\ cur' = [cur EXCEPT !.used = local[t].used + 1, !.last_request_time = now]
    /\ pc' = [pc EXCEPT ![t] = "rr_params"]
    /\ UNCHANGED <<RecordFrame, db, recCount, lock, tret, local>>

\* _save_daily_usage: the parameter tuple is built from the in-memory row ...
RecParams(t) ==
    /\ pc[t] = "rr_params"
    /\ local' = [local EXCEPT ![t].row = cur]
    /\ pc' = [pc EXCEPT ![t] = "rr_save"]
    /\ UNCHANGED <<RecordFrame, govVars, recCount, lock, tret>>

\* ... and the INSERT OR REPLACE is executed and committed; the caller returns
\* (and leaves acquire()'s `with` block when it came through it).
RecSave(t) ==
    /\ pc[t] = "rr_save"
    /\ db' = SaveDailyUsage(local[t].row, db)
    /\ local' = [local EXCEPT ![t] = NoLocal]
    /\ lock' = IF lock = t THEN NoThread ELSE lock
    /\ tret' = [tret EXCEPT ![t] = "None"]
    /\ pc' = [pc EXCEPT ![t] = "idle"]
    /\ UNCHANGED <<RecordFrame, cur, recCount>>

NextRecord ==
    \/ \E t \in Threads, viaAcquire \in BOOLEAN : RecCall(t, viaAcquire)
    \/ \E t \in Threads : RecRead(t)
    \/ \E t \in Threads : RecWrite(t)
    \/ \E t \in Threads : RecParams(t)
    \/ \E t \in Threads : RecSave(t)

\* Several callers of record_request() on one governor, within one day.
SpecRecord == Init /\ [][NextRecord]_vars

\* ------------------------------------ two governors on one storage path
\* What the second governor's operations leave alone.
PeerFrame ==
    <<now, cur, last_request_time, cacheVars, ghostVars, threadVars, batchVars,
      lookupVars, envVars, recoveryVars, local, validVars>>

\* record_request() on the second governor: it increments its own in-memory
\* row and writes that row over the shared table's.
PeerRecordRequest ==
    /\ RolledUsage(peer, Today).used < MaxCalls
    /\ peer' = Recorded(RolledUsage(peer, Today), now)
    /\ db' = SaveDailyUsage(peer', RolledDb(peer, db, Today))
    /\ peerCount' = peerCount + 1
    /\ lastOp' = "peer.record_request"
    /\ ret' = "None"
    /\ UNCHANGED PeerFrame

\* can_make_request() on the second governor.
PeerCanMakeRequest ==
    /\ peer' = RolledUsage(peer, Today)
    /\ db' = RolledDb(peer, db, Today)
    /\ lastOp' = "peer.can_make_request"
    /\ ret' = BoolStr(QuotaAvailable(peer'))
    /\ UNCHANGED <<PeerFrame, peerCount>>

\* close() of the second governor.
PeerClose ==
    /\ db' = SaveDailyUsage(peer, db)
    /\ lastOp' = "peer.close"
    /\ ret' = "None"
    /\ UNCHANGED <<PeerFrame, peer, peerCount>>

NextPeers ==
    \/ RecordRequest
    \/ CanMakeRequest
    \/ Close
    \/ PeerRecordRequest
    \/ PeerCanMakeRequest
    \/ PeerClose

\* Two governors opened on the same empty storage path, within one day.
SpecPeers == Init /\ [][NextPeers]_vars

\* ------------------------------------------------------------- claims
\* What get_usage() would report as `used` if it were called in this state.
ReportedUsed == UsageOf(RolledUsage(cur, Today)).used

\* What a governor constructed now on table d would report as `used`.
ReopenedUsed(d) == UsageOf(RolledUsage(LoadDailyUsage(d, Today), Today)).used

\* C2: within one ledger day, after n record_request() calls on an empty ledger
\* get_usage().used is n, and can_make_request() returns true exactly while
\* n < daily_limit.
C2_UsedEqualsCallCount ==
    /\ ReportedUsed = recCount
    /\ (lastOp = "can_make_request" /\ cur.date = Today)
          => ret = BoolStr(recCount < DailyLimit)

C2_Witness ==
    /\ lastOp = "can_make_request"
    /\ cur.date = Today
    /\ recCount = DailyLimit
    /\ ret = "False"

\* C3: a governor opened on the same storage path on the same day, with or
\* without close() on the first, reports the first governor's used count, and
\* a recorded request is in the table when record_request() returns.
C3_QuotaDurable ==
    /\ \A withClose \in BOOLEAN :
          ReopenedUsed(IF withClose THEN SaveDailyUsage(cur, db) ELSE db) = ReportedUsed
    /\ (lastOp = "record_request" \/ (lastOp = "acquire" /\ ret = "None"))
          => /\ cur.date \in DOMAIN db
             /\ db[cur.date].used = cur.used

C3_Witness ==
    /\ lastOp = "reopen"
    /\ cur.date = Today
    /\ cur.used = DailyLimit
    /\ recCount = DailyLimit

\* The quota-sensitive operations of the governor, as steps.
QuotaSensitiveStep == CanMakeRequest \/ RecordRequest \/ Acquire \/ GetUsage

\* C4: usage of day D is invisible on day D+1: while no request is recorded on
\* the current day the reported used is 0 and the quota test passes, and the
\* first quota-sensitive operation on a stale ledger leaves a row for the new
\* day, zeroed by the read-only operations and counting 1 after a record.
C4_DayRollover ==
    /\ [](recCount = 0 =>
            /\ ReportedUsed = 0
            /\ QuotaAvailable(RolledUsage(cur, Today)))
    /\ [][(QuotaSensitiveStep /\ NeedsRollover(cur, Today)) =>
            /\ cur'.date = DayOf(now')
            /\ cur'.date \in DOMAIN db'
            /\ db'[cur'.date].used = cur'.used
            /\ lastOp' \in {"can_make_request", "get_usage"} =>
                  /\ cur' = ZeroUsage(Today)
                  /\ lastOp' = "can_make_request" => ret' = "True"
            /\ (lastOp' = "record_request" \/ (lastOp' = "acquire" /\ ret' = "None"))
                  => cur'.used = 1]_vars

C4_Witness ==
    /\ lastOp = "can_make_request"
    /\ ret = "True"
    /\ cur = ZeroUsage(Today)
    /\ (Today - 1) \in DOMAIN db
    /\ db[Today - 1].used >= DailyLimit

\* C7: whenever acquire() records a request, at least min_interval has elapsed
\* since the last request recorded on that governor, by acquire() or by
\* record_request().
C7_RequestSpacing ==
    [][(Acquire /\ ret' = "None" /\ lastRecAt >= 0)
          => now' - lastRecAt >= MinInterval]_vars

\* C5: acquire() is one critical section: at most one caller is between the
\* quota check and the end of the record, so neither the used count nor the
\* number of successful acquire() calls of a day exceeds daily_limit.
C5_AcquireSerialized ==
    /\ \A t1, t2 \in Threads :
          (t1 # t2 /\ pc[t1] \in InWithBlock) => pc[t2] \notin InWithBlock
    /\ cur.used <= DailyLimit
    /\ acqOk <= DailyLimit

C5_Witness ==
    \E t1, t2 \in Threads :
        /\ pc[t1] = "lock"
        /\ pc[t2] = "sleep"
        /\ cur.date = Today
        /\ cur.used = DailyLimit - 1

\* C6: an acquire() that finds today's quota exhausted raises QuotaExceededError
\* with the used count and the persisted row as they were, and the lock is free
\* once the caller has left: no caller outside the `with` block holds it.
C6_ExhaustedAcquireReleases ==
    /\ [](\A t \in Threads : pc[t] \notin InWithBlock => lock # t)
    /\ [](lock # NoThread => pc[lock] \in InWithBlock)
    /\ [][\A t \in Threads :
            /\ (pc[t] = "check" /\ pc'[t] # "check"
                    /\ cur.date = Today /\ cur.used >= DailyLimit) => pc'[t] = "raise"
            /\ (pc[t] = "check" /\ pc'[t] = "raise") =>
                  (cur' = cur /\ db' = db /\ cur.used >= DailyLimit)
            /\ (pc[t] = "raise" /\ pc'[t] = "idle") =>
                  /\ tret'[t] = "QuotaExceededError"
                  /\ lock' = NoThread
                  /\ cur' = cur
                  /\ db' = db]_vars

C6_Witness ==
    \E t1, t2 \in Threads :
        /\ tret[t1] = "QuotaExceededError"
        /\ pc[t1] = "idle"
        /\ pc[t2] = "check"
        /\ lock = t2
        /\ cur.date = Today
        /\ cur.used = DailyLimit

\* A step of a single-symbol fetch for symbol sym, by either path.
FetchStep(sym) ==
    \E out \in ProviderOutcomes : FetchHistoricalData(sym, out) \/ FetchSingleSymbol(sym, out)

SingleFetchOps == {"fetch_historical_data", "_fetch_single_symbol"}

\* C1: on one ledger day the number of provider calls issued never exceeds
\* daily_limit, also when provider calls raise and across restarts.
C1_ProviderCallsWithinQuota == provCalls <= DailyLimit

\* C8: a fetch served from the cache issues no provider call, leaves the ledger
\* (in memory and persisted) as it was and does not rewrite the cached records.
C8_CacheHitIsFree ==
    [][\A sym \in Symbols :
          (lastOp' \in SingleFetchOps /\ ret' = "cached" /\ FetchStep(sym)) =>
              /\ provCalls' = provCalls
              /\ recCount' = recCount
              /\ cur' = cur
              /\ db' = db
              /\ stock' = stock]_vars

C8_Witness ==
    /\ lastOp \in SingleFetchOps
    /\ ret = "cached"
    /\ NeedsRollover(cur, Today)
    /\ cur.used > 0

\* C9: a fetch returns cached data without contacting the provider only if the
\* cached range is fresh per the Freshness Manager.
C9_CachedOnlyIfFresh ==
    [][\A sym \in Symbols :
          (lastOp' \in SingleFetchOps /\ ret' = "cached" /\ FetchStep(sym)) =>
              IsDataFresh(meta, CacheKey(sym, FetchRange[1], FetchRange[2]), now)]_vars

\* C10: on a cache miss with today's quota exhausted the fetch raises
\* QuotaExceededError, unwrapped, before any provider call, and leaves the
\* ledger and the cache as they were.
C10_ExhaustedFetchFailsFast ==
    [][\A sym \in Symbols :
          (/\ cur.date = Today
           /\ cur.used >= DailyLimit
           /\ ~IsCached(stock, meta, sym, FetchRange[1], FetchRange[2])
           /\ FetchStep(sym)) =>
              /\ ret' = "QuotaExceededError"
              /\ provCalls' = provCalls
              /\ cur' = cur
              /\ db' = db
              /\ stock' = stock
              /\ meta' = meta]_vars

C10_Witness ==
    /\ lastOp \in SingleFetchOps
    /\ ret = "QuotaExceededError"
    /\ cur.date = Today
    /\ cur.used = DailyLimit
    /\ provCalls = DailyLimit

\* A single-symbol fetch for sym, by either path, the provider behaving as out.
FetchStepWith(sym, out) == FetchHistoricalData(sym, out) \/ FetchSingleSymbol(sym, out)

\* A fetch for sym reaches the provider: the cache misses and quota is left.
ReachesProvider(sym) ==
    /\ ~IsCached(stock, meta, sym, FetchRange[1], FetchRange[2])
    /\ QuotaAvailable(RolledUsage(cur, Today))

\* C11: every single-symbol fetch raises the ledger's used count by the number
\* of provider calls it issued: by one when it calls the provider, also when
\* the provider raises, and by nothing when it does not call the provider.
C11_UsedCountsProviderCalls ==
    [][\A sym \in FetchSymbols :
          FetchStep(sym) =>
              cur'.used - RolledUsage(cur, Today).used = provCalls' - provCalls]_vars

\* C12: when the frame the provider returns fails validation (empty, missing
\* column, non-numeric value, wrong order) the fetch raises ValidationError and
\* the cache records and metadata are unchanged.
C12_InvalidDataRaisesValidationError ==
    [][\A sym \in FetchSymbols, out \in ProviderOutcomes :
          (/\ out.exc = "none"
           /\ ~Validates(out.data)
           /\ ReachesProvider(sym)
           /\ FetchStepWith(sym, out)) =>
              /\ ret' = "ValidationError"
              /\ stock' = stock
              /\ meta' = meta]_vars

\* C13: an InvalidSymbolError raised by the provider call reaches the caller of
\* the fetch as it is; any other exception of the provider call reaches it as
\* DataFetchError.
C13_ErrorPropagation ==
    [][\A sym \in FetchSymbols, out \in ProviderOutcomes :
          (/\ out.exc # "none"
           /\ ReachesProvider(sym)
           /\ FetchStepWith(sym, out)) =>
              /\ provCalls' = provCalls + 1
              /\ ret' = IF out.exc = "invalid_symbol"
                        THEN "InvalidSymbolError" ELSE "DataFetchError"]_vars

C13_Witness ==
    /\ lastOp \in SingleFetchOps
    /\ ret = "InvalidSymbolError"
    /\ provCalls > 0

\* The first n symbols of a list (none when n <= 0).
FirstN(seq, n) == SubSeq(seq, 1, Min(Max(n, 0), Len(seq)))

\* Whether p is a prefix of seq.
IsPrefix(p, seq) == Len(p) <= Len(seq) /\ SubSeq(seq, 1, Len(p)) = p

\* C14: calculate_optimal_batch_size returns min(len(symbols), remaining), 1
\* when that minimum is 0 while quota remains, and 0 when remaining <= 0; the
\* result is never negative and, for a non-empty list, never above what remains.
C14_OptimalBatchSize ==
    batch.phase # "idle" =>
        /\ batch.batch_size =
              (IF batch.remaining <= 0 THEN 0
               ELSE IF Min(Len(batch.symbols), batch.remaining) = 0 THEN 1
               ELSE Min(Len(batch.symbols), batch.remaining))
        /\ batch.batch_size >= 0
        /\ Len(batch.symbols) >= 1 => batch.batch_size <= Max(batch.remaining, 0)

\* C15: fetch_multiple_symbols raises QuotaExceededError before any cache
\* lookup or provider call, and returns no map, whenever no quota remains when
\* it starts; when quota remains at the start it never raises it.
C15_BatchQuotaUpFront ==
    /\ (batch.phase # "idle" /\ batch.remaining <= 0) =>
          /\ batch.phase = "raised"
          /\ batch.attempted = <<>>
          /\ batch.calls = 0
    /\ (batch.phase # "idle" /\ batch.remaining > 0) => batch.phase # "raised"

\* C16: a batch processes only the first batch_size symbols of its list, in
\* list order; the keys of its result map are among them and it issues no more
\* provider calls than the quota that remained when it started.
C16_BatchBounded ==
    batch.phase # "idle" =>
        /\ IsPrefix(batch.attempted, FirstN(batch.symbols, batch.batch_size))
        /\ batch.results \subseteq Items(FirstN(batch.symbols, batch.batch_size))
        /\ batch.calls <= Max(batch.remaining, 0)

\* C17: a batch never aborts on one symbol's failure: every symbol to process
\* is attempted, in order, whichever of them raise, and the map returned has
\* exactly the processed symbols whose fetch did not raise.
C17_BatchNeverAborts ==
    /\ batch.phase = "run" =>
          batch.attempted \o batch.todo = SliceTo(batch.symbols, batch.batch_size)
    /\ batch.phase = "returned" =>
          /\ batch.attempted = SliceTo(batch.symbols, batch.batch_size)
          /\ batch.results = Items(batch.attempted) \ batch.failed

C17_Witness ==
    /\ batch.phase = "returned"
    /\ batch.attempted = <<"A", "B">>
    /\ batch.failed = {"A"}
    /\ batch.results = {"B"}
    /\ ret = "results"

\* The operations that delete cache rows.
RemovalOps == {"clear_cache", "cleanup_old_cache", "invalidate_cache_entry"}

\* C18: store(sym, s, e, data) of a non-empty valid dataset followed by
\* get(sym, s, e) returns exactly the rows stored, in ascending date order,
\* whatever was stored for the symbol before.
C18_CacheRoundTrip ==
    [][\A sym \in CacheSymbols, r \in CacheRanges :
          \A data \in CacheFrames(r[1], r[2]) :
              (Validates(data) /\ Store(sym, r[1], r[2], data)) =>
                  CacheGet(stock', meta', sym, r[1], r[2]) = Frame(data.rows)]_vars

\* C19: get(sym, s, e) returns absent, and raises nothing, whenever no store
\* was made for exactly (sym, s, e), also when records of sym inside [s, e]
\* exist because another range of the symbol was stored.
C19_MissOnOtherRange ==
    [][\A sym \in CacheSymbols, r \in CacheRanges :
          (<<sym, r[1], r[2]>> \notin everStored /\ Get(sym, r[1], r[2])) =>
              /\ ret' = "None"
              /\ stock' = stock
              /\ meta' = meta]_vars

C19_Witness ==
    /\ lastOp = "get"
    /\ ret = "None"
    /\ lastKey \notin everStored
    /\ \E d \in lastKey[2]..lastKey[3] : <<lastKey[1], d>> \in DOMAIN stock

\* C20, as stated: after any sequence of store, get, clear_cache,
\* cleanup_old_cache and invalidate_cache_entry calls a metadata row exists for
\* (symbol, start, end) if and only if a store succeeded for that exact range.
C20_MetadataIffStored ==
    \A sym \in CacheSymbols, r \in CacheRanges :
        CacheKey(sym, r[1], r[2]) \in DOMAIN meta <=> <<sym, r[1], r[2]>> \in everStored

\* C20, amended: a metadata row exists only for a range that a store wrote; a
\* store that writes leaves the row of its range in place; and only the
\* removal operations delete a row.
C20_MetadataOnlyIfStored ==
    /\ [](DOMAIN meta \subseteq everStored)
    /\ [][\A sym \in CacheSymbols, r \in CacheRanges :
            \A data \in CacheFrames(r[1], r[2]) :
                (StoreWrites(data) /\ Store(sym, r[1], r[2], data)) =>
                    CacheKey(sym, r[1], r[2]) \in DOMAIN meta']_vars
    /\ [][(DOMAIN meta \ DOMAIN meta' # {}) => lastOp' \in RemovalOps]_vars

C20_Witness ==
    /\ lastOp = "store"
    /\ ret = "None"
    /\ lastKey \in DOMAIN meta
    /\ \E k \in everStored : k \notin DOMAIN meta

\* C21 as stated: store() of an empty dataset changes nothing and raises
\* nothing; store() of a dataset lacking a required column raises
\* ValidationError and changes neither the records nor the metadata.
C21_StoreRejectsWithValidationError ==
    [][\A sym \in CacheSymbols, r \in CacheRanges :
         \A data \in CacheFrames(r[1], r[2]) :
            Store(sym, r[1], r[2], data) =>
                /\ IsEmpty(data) => (ret' = "None" /\ UNCHANGED cacheVars)
                /\ (~IsEmpty(data) /\ ~data.columns_ok) =>
                       (ret' = "ValidationError" /\ UNCHANGED cacheVars)]_vars

\* C21 as amended: store() of an empty dataset changes nothing and raises
\* nothing; store() of a dataset lacking a required column raises ValueError
\* and changes neither the records nor the metadata.
C21_StoreRejectsWithValueError ==
    [][\A sym \in CacheSymbols, r \in CacheRanges :
         \A data \in CacheFrames(r[1], r[2]) :
            Store(sym, r[1], r[2], data) =>
                /\ IsEmpty(data) => (ret' = "None" /\ UNCHANGED cacheVars)
                /\ (~IsEmpty(data) /\ ~data.columns_ok) =>
                       (ret' = "ValueError" /\ UNCHANGED cacheVars)]_vars

\* A store() that raised on a cache that holds data.
C21_Witness ==
    /\ lastOp = "store"
    /\ ret = "ValueError"
    /\ lastKey \in DOMAIN meta

\* C22: right after a store() that wrote, a re-store of an aged range included,
\* is_data_fresh is true of the stored range for every positive threshold and
\* should_invalidate_cache is false; and whenever the created_at of a metadata
\* row is more than the adaptive threshold in the past, should_invalidate_cache
\* is true of its range.
C22_FreshAfterStore ==
    /\ [][\A k \in FreshKeys : \A data \in FreshFrames(k[2], k[3]) :
            (StoreWrites(data) /\ Store(k[1], k[2], k[3], data)) =>
                /\ \A threshold \in FreshThresholds \ {NoThreshold} :
                       IsDataFreshWithin(meta', k, now', threshold)
                /\ ~ShouldInvalidate(meta', k, now')]_vars
    /\ [](\A k \in DOMAIN meta :
            (now - meta[k].created_at) * TickMinutes > AdaptiveThreshold(UtcOf(now))
                => ShouldInvalidate(meta, k, now))

C24_MatchesAll(rsym, created, symbol, days) ==
    /\ symbol = "" \/ rsym = symbol
    /\ days = 0 \/ created < now - days * DayLen

\* Whether a step from `before` to `after` removed the rows matching every
\* filter and left every other row as it was.
C24_RemovedExactly(before, after, symbol, days) ==
    /\ DOMAIN after =
           {k \in DOMAIN before :
               ~C24_MatchesAll(k[1], before[k].created_at, symbol, days)}
    /\ \A k \in DOMAIN after : after[k] = before[k]

\* C24: clear_cache(symbol, older_than_days) and cleanup_old_cache(days) delete
\* exactly the records and the metadata rows that match every given filter and
\* leave the others unchanged, so with only a symbol given no other symbol
\* loses data; without a filter, or with older_than_days = 0 and no symbol,
\* both tables are empty afterwards; and the count returned is the number of
\* rows deleted.
C24_ClearDeletesExactlyMatching ==
    [][\A symbol \in ClearSymbols, days \in ClearDays :
          (ClearCache(symbol, days) \/ (symbol = "" /\ CleanupOldCache(days))) =>
              /\ C24_RemovedExactly(stock, stock', symbol, days)
              /\ C24_RemovedExactly(meta, meta', symbol, days)
              /\ (symbol # "" /\ days = 0) =>
                     \A k \in DOMAIN stock \cup DOMAIN meta :
                         k[1] # symbol =>
                            k \in DOMAIN stock' \cup DOMAIN meta'
              /\ (symbol = "" /\ days = 0) => (stock' = <<>> /\ meta' = <<>>)
              /\ ret' = ToString(Cardinality(DOMAIN stock) - Cardinality(DOMAIN stock')
                                 + Cardinality(DOMAIN meta) - Cardinality(DOMAIN meta'))]_vars

\* A clear_cache that deleted rows and kept others.
C24_Witness ==
    /\ lastOp = "clear_cache"
    /\ ret # "0"
    /\ DOMAIN meta # {}

C26_BreakerTrips ==
    /\ [](/\ TripThreshold <= 5
          /\ breaker.failures < TripThreshold => breaker.state = "CLOSED"
          /\ breaker.failures >= TripThreshold => breaker.state = "OPEN")
    /\ [][(ShouldAllowCall /\ breaker.state = "OPEN") => ret' = "False"]_vars

\* should_allow_call() was asked after the breaker opened.
C26_Witness ==
    /\ lastOp = "should_allow_call"
    /\ ret = "False"
    /\ breaker.state = "OPEN"
    /\ breaker.failures = TripThreshold

\* C27: retry_with_backoff invokes the operation at most max_retries times;
\* every invocation before the last one failed with an allow-listed exception,
\* so it returns at the first success (after k failures, k + 1 invocations)
\* and does not retry an exception outside the allow-list; it goes on while
\* attempts are left; and it ends with the outcome of the last invocation,
\* re-raising the last exception when every attempt failed.
C27_RetryBounded ==
    retry.phase # "idle" =>
        LET n == Len(retry.outcomes)
        IN  /\ n <= retry.max_retries
            /\ \A i \in 1..(n - 1) : retry.outcomes[i] = "listed"
            /\ retry.phase = "running" =>
                   /\ n < retry.max_retries
                   /\ \A i \in 1..n : retry.outcomes[i] = "listed"
            /\ retry.phase = "done" =>
                   /\ n >= 1
                   /\ retry.result = retry.outcomes[n]
                   /\ retry.outcomes[n] = "listed" => n = retry.max_retries
                   /\ lastOp = "retry_with_backoff" =>
                          ret = RetryResult(retry.outcomes[n])

\* retry_with_backoff returned after failing max_retries - 1 times.
C27_Witness ==
    /\ retry.phase = "done"
    /\ retry.result = "ok"
    /\ retry.max_retries = MaxRetries
    /\ Len(retry.outcomes) = MaxRetries

\* C28: get_data_with_fallback returns api_function's result when it succeeds;
\* when it raises and the cache holds data for exactly (symbol, start, end) it
\* returns that dataset, however old, and raises nothing; when it raises and
\* nothing is cached for the range the failure propagates.
C28_FallbackToCache ==
    [][\A sym \in CacheSymbols, r \in CacheRanges : \A out \in ApiOutcomes(r[1], r[2]) :
          GetDataWithFallback(sym, r[1], r[2], out) =>
              LET cached == CacheGet(stock, meta, sym, r[1], r[2])
              IN  IF out.exc = "none"
                  THEN fallback' = [result |-> "returned", data |-> out.data]
                  ELSE IF cached # NoData
                  THEN fallback' = [result |-> "returned", data |-> cached]
                  ELSE fallback'.result = "raised" /\ ret' = "Error"]_vars

\* The fallback returned a dataset cached on an earlier day.
C28_Witness ==
    /\ lastOp = "get_data_with_fallback"
    /\ ret = "cached_data"
    /\ fallback.data # NoData
    /\ lastKey \in DOMAIN meta
    /\ DayOf(meta[lastKey].created_at) < Today

\* C29: in every reachable state 0 <= used <= daily_limit, so the remaining
\* quota get_usage reports is never negative.
C29_UsedWithinLimit ==
    /\ 0 <= cur.used
    /\ cur.used <= DailyLimit
    /\ UsageOf(RolledUsage(cur, Today)).remaining >= 0

\* C30: requests_used is never negative, in memory or persisted, and no step
\* other than reset_quota lowers it within a ledger day: the in-memory count
\* while the ledger date stays the same, the persisted count of every day.
C30_UsedNeverDecreases ==
    [][~(\E force \in BOOLEAN, production \in BOOLEAN : ResetQuota(force, production)) =>
          /\ cur'.used >= 0
          /\ cur'.date = cur.date => cur'.used >= cur.used
          /\ \A d \in DOMAIN db :
                /\ d \in DOMAIN db'
                /\ db'[d].used >= db[d].used
                /\ db'[d].used >= 0]_vars

\* close() saved a ledger on which requests were recorded.
C30_Witness ==
    /\ lastOp = "close"
    /\ cur.used = DailyLimit
    /\ cur.date \in DOMAIN db
    /\ db[cur.date].used = cur.used

\* C31: whenever no caller is inside record_request(), used equals the number
\* of record_request() calls made, and the persisted row of the day equals the
\* in-memory count.
C31_NoLostUpdate ==
    (\A t \in Threads : pc[t] = "idle") =>
        /\ cur.used = recCount
        /\ recCount > 0 => (Today \in DOMAIN db /\ db[Today].used = cur.used)

\* C32: with two governors open on the same storage path on the same day, the
\* persisted requests_used, and the used count a governor opened now would
\* report, equal the number of requests recorded by both.
C32_PeersAddUp ==
    /\ (Today \in DOMAIN db => db[Today].used = recCount + peerCount)
    /\ ReopenedUsed(db) = recCount + peerCount

C34_KeysOf(sym, data) == {<<sym, data.rows[i].date>> : i \in 1..Len(data.rows)}

C35_Expected(t) ==
    IF DayOf(t) % 7 \in {5, 6} THEN 1440
    ELSE IF 570 <= MinuteOfDay(t) /\ MinuteOfDay(t) <= 960 THEN 5
    ELSE 240

\* C35: the adaptive threshold is chosen from the current moment only (1440
\* minutes on an exchange-local weekend, 5 while the market is open, 240
\* otherwise), whatever the cache holds; is_data_fresh without a threshold
\* compares the cache age to it, and with an explicit threshold to that one.
C35_AdaptiveThreshold ==
    [][/\ GetAdaptiveThresholdCall => ret' = ToString(C35_Expected(UtcOf(now)))
       /\ \A k \in FreshKeys, threshold \in FreshThresholds :
             IsDataFreshCall(k[1], k[2], k[3], threshold) =>
                ret' = BoolStr(GetCacheAge(meta, k, now) <=
                                 (IF threshold = NoThreshold
                                  THEN C35_Expected(UtcOf(now)) ELSE threshold))]_vars

\* is_data_fresh answered True on a weekend for a range stored the day before.
C35_Witness ==
    /\ lastOp = "is_data_fresh"
    /\ ret = "True"
    /\ IsWeekend(UtcOf(now))
    /\ lastKey \in DOMAIN meta
    /\ GetCacheAge(meta, lastKey, now) > AfterHoursMinutes

\* Whether the dates of the rows are in strictly increasing order.
C36_StrictlyIncreasing(rows) ==
    \A i \in 1..(Len(rows) - 1) : rows[i].date < rows[i + 1].date

\* C36: a dataset whose dates are not strictly increasing (two rows of one
\* date, or a row dated before its predecessor) fails validation, and no
\* such dataset is stored.
C36_StrictChronologicalOrder ==
    [][/\ \A data \in ValidatorFrames :
             (Validate(data) /\ ~C36_StrictlyIncreasing(data.rows)) =>
                 ret' = "ValidationError"
       /\ lastOp' = "store" => C36_StrictlyIncreasing(frame'.rows)]_vars

\* C37: invalidate_cache_entry(sym, s, e) removes that entry only: afterwards
\* get(sym, s, e) is absent, and get of every other range of the symbol and
\* of every range of the other symbols returns what it returned before.
C37_InvalidatesOnlyTheEntry ==
    [][\A sym \in CacheSymbols, r \in CacheRanges :
          InvalidateCacheEntry(sym, r[1], r[2]) =>
              /\ CacheGet(stock', meta', sym, r[1], r[2]) = NoData
              /\ \A sym2 \in CacheSymbols, r2 \in CacheRanges :
                    <<sym2, r2>> # <<sym, r>> =>
                        CacheGet(stock', meta', sym2, r2[1], r2[2]) =
                            CacheGet(stock, meta, sym2, r2[1], r2[2])]_vars

\* A fetch for sym whose provider call returns out.data and then fails: the
\* frame fails validation, or the store raises.
C38_FailsAfterProvider(sym, out) ==
    /\ out.exc = "none"
    /\ ~Validates(out.data) \/ ~out.store_ok
    /\ ReachesProvider(sym)
    /\ FetchStepWith(sym, out)

\* What C38 says of every such fetch but the repeat: one provider call, used
\* one higher, records and metadata as they were.
C38_ConsumedOneUnit ==
    /\ provCalls' = provCalls + 1
    /\ ret' = "DataFetchError"
    /\ cur'.used = RolledUsage(cur, Today).used + 1
    /\ stock' = stock
    /\ meta' = meta

\* C38 as stated: a fetch whose provider call returned and whose frame then
\* fails validation, or whose store fails, has consumed one unit of quota and
\* left the cache unchanged, and the same fetch repeated issues another
\* provider call and consumes another unit.
C38_RepeatAlwaysCallsProvider ==
    [][\A sym \in FetchSymbols, out \in ProviderOutcomes :
          C38_FailsAfterProvider(sym, out) =>
              /\ C38_ConsumedOneUnit
              /\ ~IsCached(stock', meta', sym, FetchRange[1], FetchRange[2])
              /\ QuotaAvailable(RolledUsage(cur', Today))]_vars

\* C38 as amended: such a fetch has consumed one unit of quota and left the
\* cache unchanged, and the same fetch repeated misses the cache again, so it
\* issues another provider call and consumes another unit whenever the
\* governor still has quota for the day (it raises QuotaExceededError
\* without a provider call otherwise).
C38_RepeatCallsProviderWhileQuota ==
    [][\A sym \in FetchSymbols, out \in ProviderOutcomes :
          /\ C38_FailsAfterProvider(sym, out) =>
                /\ C38_ConsumedOneUnit
                /\ ~IsCached(stock', meta', sym, FetchRange[1], FetchRange[2])
          /\ (/\ FetchStepWith(sym, out)
              /\ ~IsCached(stock, meta, sym, FetchRange[1], FetchRange[2])) =>
                IF QuotaAvailable(RolledUsage(cur, Today))
                THEN provCalls' = provCalls + 1
                ELSE /\ provCalls' = provCalls
                     /\ ret' = "QuotaExceededError"]_vars

\* Two fetches in a row called the provider, were recorded and stored nothing.
C38_Witness ==
    /\ lastOp \in SingleFetchOps
    /\ ret = "DataFetchError"
    /\ provCalls >= 2
    /\ recCount = provCalls
    /\ cur.used = recCount
    /\ stock = <<>>

\* C39: get_cache_age is the time elapsed since the metadata row of the range
\* was created, whatever the UTC offset of the host clock: right after the
\* store() that creates the row the age is below one minute, the age of every
\* cached range is the host-clock time since its created_at, and
\* is_fresh(hours = h) agrees with is_data_fresh(threshold_minutes = 60 * h).
C39_AgeIndependentOfHostOffset ==
    /\ [][\A k \in FreshKeys : \A data \in FreshFrames(k[2], k[3]) :
            (/\ k \notin DOMAIN meta
             /\ StoreWrites(data)
             /\ Store(k[1], k[2], k[3], data)) =>
                GetCacheAge(meta', k, now') < 1]_vars
    /\ [](\A k \in DOMAIN meta :
            GetCacheAge(meta, k, now) = (now - meta[k].created_at) * TickMinutes)
    /\ [](\A k \in FreshKeys, hours \in FreshHours :
            CacheIsFresh(meta, k, now, hours) = IsDataFreshWithin(meta, k, now, 60 * hours))

====
